---- MODULE Spec2Model ----
(***************************************************************************)
(* StudySync: concurrent mutation of shared Firestore documents.           *)
(*                                                                         *)
(*  - sessions/{id}: attendance list bounded by an optional capacity,      *)
(*    created by CreateSessionModal.handleSubmit and mutated by            *)
(*    handleJoinSession / handleLeaveSession, each inside runTransaction   *)
(*    (app/studysessions.tsx).                                             *)
(*  - locationRatings/{id}: per-location rating aggregate, written by      *)
(*    addOrUpdateRating with getDoc followed by updateDoc / setDoc         *)
(*    (utils/locationRatings.ts).                                          *)
(*                                                                         *)
(* A client is a process: one signed-in user on one device.  Every await   *)
(* in a handler is a point where other clients may run, so a handler is    *)
(* one action per stretch of code between two awaits.                      *)
(***************************************************************************)
EXTENDS Integers, Sequences, FiniteSets, TLC

\* ------------------------------------------------------------- bounds

\* Writes a session document may receive (its version never exceeds this).
MaxVersion == 5

\* Calls of addOrUpdateRating the clients make in all.
MaxRateCalls == 3

\* Attempts one runTransaction call makes before it gives up.  The calls pass
\* no options, so the library's own limit applies; the model bounds it.
MaxAttempts == 2

\* Calls of the notification service the app makes in all.
MaxReminderCalls == 3

Users == {"A", "B", "C"}
Procs == {"p1", "p2", "p3"}
SessionIds == {"s1", "s2"}
LocationIds == {"L1", "L2", "L3"}

\* Calls of the notification service that may be pending at once on the
\* device.
Tasks == {"t1", "t2"}

\* Which user is signed in on which client: three different users ...
DistinctUsers ==
  [p \in Procs |-> CASE p = "p1" -> "A" [] p = "p2" -> "B" [] OTHER -> "C"]

\* ... or user A signed in on two devices.
TwoDevices ==
  [p \in Procs |-> CASE p = "p1" -> "A" [] p = "p2" -> "B" [] OTHER -> "A"]

\* The client is the only one its user is signed in on.
Solo(u, p) == \A q \in Procs : u[q] = u[p] => q = p

\* The messages the handlers alert.
Joined == "Joined!"
Left == "Left!"
AlreadyJoined == "You are already in this session"
SessionFull == "Session is full"
NotAJoiner == "Error: You are not in this session"
NotFound == "Session does not exist"
Aborted == "aborted"
InvalidCapacity == "Capacity must be a positive number or left empty."
Created == "Your study session has been created."
NoResult == "none"

VARIABLES
  sessions,     \* sessions/{id}: the stored documents
  userOf,       \* the user signed in on each client
  pc,           \* where each client stands in its handler
  target,       \* the document id the client's call is about
  readVersion,  \* version of the document the running attempt read
  pending,      \* the update the running attempt buffered
  attempts,     \* attempts the running transaction has started
  result,       \* what the client's last finished call alerted
  rejoin,       \* the client's call is a join right after its own join
  locationRatings,  \* locationRatings/{id}: the stored documents
  rpc,          \* where each client stands in addOrUpdateRating
  rtarget,      \* the location the client's rating call is about
  rarg,         \* the rating argument of the client's call
  rsnap,        \* docSnap: what getDoc returned to the call
  rcalls,       \* calls of addOrUpdateRating started so far
  rresult,      \* what the client's last rating submission alerted
  acked,        \* per location and user, the score of the user's last
                \* call that returned without error (NoScore: none yet)
  topLocations, \* the map screen's topLocations: the last query's limit
                \* and the ids of the documents it returned, in order
  capacity,     \* per client, the text in the capacity field of the
                \* creation form
  perm,         \* the system's notification permission for the app
  asked,        \* AsyncStorage item '@notification_permission_asked'
  prompts,      \* calls of requestPermissionsAsync made so far
  mappingItem,  \* AsyncStorage item '@notification_session_mapping'
  scheduled,    \* ids of the notifications the system holds scheduled
  issued,       \* notification ids handed out so far
  ncalls,       \* calls of the notification service started so far
  task          \* per pending call: function, position and locals

sessionVars == <<sessions, pc, target, readVersion, pending, attempts,
                 result, rejoin>>

notifVars == <<perm, asked, prompts, mappingItem, scheduled, issued, ncalls,
               task>>

extraVars == <<capacity, notifVars>>

ratingVars == <<locationRatings, rpc, rtarget, rarg, rsnap, rcalls, rresult,
                acked, topLocations, extraVars>>

vars == <<userOf, sessionVars, ratingVars>>

\* ------------------------------------------------------------ helpers

Range(s) == {s[i] : i \in 1..Len(s)}

\* Array.prototype.includes
Includes(s, x) == x \in Range(s)

\* Array.prototype.filter(attendee => attendee !== x)
RECURSIVE FilterOut(_, _)
FilterOut(s, x) ==
  IF s = <<>> THEN <<>>
  ELSE IF Head(s) = x THEN FilterOut(Tail(s), x)
       ELSE <<Head(s)>> \o FilterOut(Tail(s), x)

Digits == {"0", "1", "2", "3", "4", "5", "6", "7", "8", "9"}

DigitVal(c) ==
  CASE c = "0" -> 0 [] c = "1" -> 1 [] c = "2" -> 2 [] c = "3" -> 3
    [] c = "4" -> 4 [] c = "5" -> 5 [] c = "6" -> 6 [] c = "7" -> 7
    [] c = "8" -> 8 [] c = "9" -> 9

\* String.prototype.trim on a sequence of characters
RECURSIVE TrimLeft(_)
TrimLeft(s) ==
  IF s # <<>> /\ Head(s) = " " THEN TrimLeft(Tail(s)) ELSE s

RECURSIVE TrimRight(_)
TrimRight(s) ==
  IF s # <<>> /\ s[Len(s)] = " " THEN TrimRight(SubSeq(s, 1, Len(s) - 1)) ELSE s

Trim(s) == TrimRight(TrimLeft(s))

\* The leading run of digits of s, as a number; n counts the digits read.
RECURSIVE ReadDigits(_, _, _)
ReadDigits(s, acc, n) ==
  IF s # <<>> /\ Head(s) \in Digits
  THEN ReadDigits(Tail(s), 10 * acc + DigitVal(Head(s)), n + 1)
  ELSE [val |-> acc, n |-> n]

\* parseInt(s, 10): optional sign, then the leading digits; NaN without one.
ParseInt(s) ==
  LET t == TrimLeft(s)
      neg == t # <<>> /\ Head(t) = "-"
      body == IF t # <<>> /\ Head(t) \in {"-", "+"} THEN Tail(t) ELSE t
      d == ReadDigits(body, 0, 0)
  IN [nan |-> d.n = 0, val |-> IF neg THEN 0 - d.val ELSE d.val]

\* What a user may type into the capacity field.
CapacityInputs ==
  { <<>>, <<"a">>, <<"0">>, <<"-", "1">>, <<"1">>, <<" ", "2", "a">> }

NoSession ==
  [exists |-> FALSE, attendees |-> <<>>, hasCapacity |-> FALSE,
   capacity |-> 0, isFull |-> FALSE, version |-> 0]

NoPending == [attendees |-> <<>>, isFull |-> FALSE]

NoLocation ==
  [exists |-> FALSE, ratings |-> <<>>, averageRating |-> 0, totalRatings |-> 0]

NoScore == 0 - 1

\* useState<LocationRating[]>([]): nothing loaded yet.
NoQuery == [limit |-> 0, ids |-> <<>>]

NoOutcome == [msg |-> NoResult, sid |-> "s1", tries |-> 0]

\* JavaScript's truthiness of sessionData.capacity: undefined and 0 are falsy.
CapacityTruthy(d) == d.hasCapacity /\ d.capacity # 0

\* Calls in flight on session s.
InFlight(s) == Cardinality({p \in Procs : pc[p] # "idle" /\ target[p] = s})

\* A call may start while the version bound leaves room for its write.
RoomFor(s) == sessions[s].version + InFlight(s) < MaxVersion

\* The errors the update functions throw on a document that exists.
BusinessErrors == {AlreadyJoined, SessionFull, NotAJoiner}

\* A transaction that runs its update function again after it threw.
FinishRetrying(p, msg) ==
  IF msg \in BusinessErrors /\ attempts[p] < MaxAttempts
  THEN /\ pc' = pc
       /\ attempts' = [attempts EXCEPT ![p] = attempts[p] + 1]
       /\ UNCHANGED <<result, readVersion, pending>>
  ELSE /\ pc' = [pc EXCEPT ![p] = "idle"]
       /\ result' = [result EXCEPT
                       ![p] = [msg |-> msg, sid |-> target[p],
                               tries |-> attempts[p]]]
       /\ readVersion' = [readVersion EXCEPT ![p] = 0]
       /\ pending' = [pending EXCEPT ![p] = NoPending]
       /\ attempts' = [attempts EXCEPT ![p] = 0]

\* The call returns: the promise of runTransaction settles with msg (the
\* alert of the handler, or of its catch).
Finish(p, msg) ==
  /\ pc' = [pc EXCEPT ![p] = "idle"]
  /\ result' = [result EXCEPT
                  ![p] = [msg |-> msg, sid |-> target[p], tries |-> attempts[p]]]
  /\ readVersion' = [readVersion EXCEPT ![p] = 0]
  /\ pending' = [pending EXCEPT ![p] = NoPending]
  /\ attempts' = [attempts EXCEPT ![p] = 0]

\* ------------------------------------------------- notificationService.js

\* The mapping object: per session id a notification id, 0 for no key.
EmptyMapping == [s \in SessionIds |-> 0]

\* The mapping item before anything was stored (getItem returns null).
NoItem == [present |-> FALSE, map |-> EmptyMapping]

\* mappingJson ? JSON.parse(mappingJson) : {}
ParseMapping(item) == IF item.present THEN item.map ELSE EmptyMapping

\* JSON.stringify(mapping), as the item setItem stores.
Stringify(mapping) == [present |-> TRUE, map |-> mapping]

\* No sessionId argument (the default null of cancelSessionReminder).
NoSid == ""

IdleTask ==
  [op |-> "none", pc |-> "idle", sid |-> NoSid, nid |-> 0,
   snap |-> EmptyMapping, granted |-> FALSE, ret |-> 0]

NotifInit ==
  /\ perm = "undetermined"
  /\ asked = FALSE
  /\ prompts = 0
  /\ mappingItem = NoItem
  /\ scheduled = {}
  /\ issued = 0
  /\ ncalls = 0
  /\ task = [t \in Tasks |-> IdleTask]

\* What the notification service leaves alone.
appVars == <<userOf, sessionVars, locationRatings, rpc, rtarget, rarg, rsnap,
             rcalls, rresult, acked, topLocations, capacity>>

\* getNotificationIdBySessionId: mapping[sessionId] || null (0 for null).
GetNotificationIdBySessionId(s) == ParseMapping(mappingItem)[s]

\* A call of the service begins on task t.
Begin(t, op, first, s, n) ==
  /\ task[t].pc = "idle"
  /\ ncalls < MaxReminderCalls
  /\ ncalls' = ncalls + 1
  /\ task' = [task EXCEPT
                ![t] = [IdleTask EXCEPT !.op = op, !.pc = first, !.sid = s,
                                        !.nid = n]]
  /\ UNCHANGED <<perm, asked, prompts, mappingItem, scheduled, issued>>
  /\ UNCHANGED appVars

StartPermission(t) ==
  Begin(t, "getNotificationPermission", "getPermissions", NoSid, 0)

StartSchedule(t, s) ==
  Begin(t, "scheduleSessionReminder", "getPermissions", s, 0)

\* cancelSessionReminder(notificationId, sessionId = null): a missing
\* notificationId returns at once.
StartCancel(t, n, s) ==
  Begin(t, "cancelSessionReminder", IF n = 0 THEN "idle" ELSE "cancel", s, n)

StartCancelBySessionId(t, s) ==
  Begin(t, "cancelSessionReminderBySessionId", "getId", s, 0)

StartCancelAll(t) ==
  Begin(t, "cancelAllReminders", "cancelAll", NoSid, 0)

\* getNotificationPermission returns ok: to its caller, or on into
\* scheduleSessionReminder, which returns null without permission.
PermissionReturns(t, ok) ==
  task' = [task EXCEPT
             ![t] = IF task[t].op = "getNotificationPermission"
                    THEN [@ EXCEPT !.pc = "idle", !.granted = ok]
                    ELSE IF ok
                         THEN [@ EXCEPT !.pc = "schedule", !.granted = TRUE]
                         ELSE [@ EXCEPT !.pc = "idle", !.granted = FALSE,
                                        !.ret = 0]]

\* await Notifications.getPermissionsAsync(), then the granted test.
GetPermissions(t) ==
  /\ task[t].pc = "getPermissions"
  /\ IF perm = "granted"
     THEN PermissionReturns(t, TRUE)
     ELSE task' = [task EXCEPT ![t].pc = "hasAsked"]
  /\ UNCHANGED <<perm, asked, prompts, mappingItem, scheduled, issued, ncalls>>
  /\ UNCHANGED appVars

\* await hasAskedForPermission(), then the alreadyAsked test.
AskedOnce(t) == asked

HasAskedForPermission(t) ==
  /\ task[t].pc = "hasAsked"
  /\ IF AskedOnce(t)
     THEN PermissionReturns(t, FALSE)
     ELSE task' = [task EXCEPT ![t].pc = "request"]
  /\ UNCHANGED <<perm, asked, prompts, mappingItem, scheduled, issued, ncalls>>
  /\ UNCHANGED appVars

\* await Notifications.requestPermissionsAsync(): the system prompt; the
\* user's answer stands once given.
RequestPermissions(t, answer) ==
  /\ task[t].pc = "request"
  /\ prompts' = prompts + 1
  /\ perm' = IF perm = "undetermined" THEN answer ELSE perm
  /\ task' = [task EXCEPT ![t].pc = "markAsked",
                          ![t].granted = (perm' = "granted")]
  /\ UNCHANGED <<asked, mappingItem, scheduled, issued, ncalls>>
  /\ UNCHANGED appVars

\* await markPermissionAsked(), then the return on status.
MarkPermissionAsked(t) ==
  /\ task[t].pc = "markAsked"
  /\ asked' = TRUE
  /\ PermissionReturns(t, task[t].granted)
  /\ UNCHANGED <<perm, prompts, mappingItem, scheduled, issued, ncalls>>
  /\ UNCHANGED appVars

\* await Notifications.scheduleNotificationAsync(...): a fresh id.
ScheduleNotification(t) ==
  /\ task[t].pc = "schedule"
  /\ issued' = issued + 1
  /\ scheduled' = scheduled \cup {issued + 1}
  /\ task' = [task EXCEPT ![t].pc = "saveRead", ![t].nid = issued + 1]
  /\ UNCHANGED <<perm, asked, prompts, mappingItem, ncalls>>
  /\ UNCHANGED appVars

\* saveNotificationMapping / removeNotificationMapping up to their write:
\* getItem and JSON.parse.
ReadMapping(t, from, to) ==
  /\ task[t].pc = from
  /\ task' = [task EXCEPT ![t].pc = to,
                          ![t].snap = ParseMapping(mappingItem)]
  /\ UNCHANGED <<perm, asked, prompts, mappingItem, scheduled, issued, ncalls>>
  /\ UNCHANGED appVars

SaveRead(t) == ReadMapping(t, "saveRead", "saveWrite")

\* mapping[sessionId] = notificationId
SavedMapping(mapping, s, n) == [mapping EXCEPT ![s] = n]

\* setItem of the changed mapping, then scheduleSessionReminder returns the
\* notification id.
SaveWrite(t) ==
  /\ task[t].pc = "saveWrite"
  /\ mappingItem' =
       Stringify(SavedMapping(task[t].snap, task[t].sid, task[t].nid))
  /\ task' = [task EXCEPT ![t].pc = "idle", ![t].ret = task[t].nid]
  /\ UNCHANGED <<perm, asked, prompts, scheduled, issued, ncalls>>
  /\ UNCHANGED appVars

\* cancelSessionReminder: cancelScheduledNotificationAsync, then the
\* mapping only if a sessionId was given.
Cancel(t) ==
  /\ task[t].pc = "cancel"
  /\ scheduled' = scheduled \ {task[t].nid}
  /\ task' = [task EXCEPT
                ![t].pc = IF task[t].sid # NoSid THEN "removeRead" ELSE "idle"]
  /\ UNCHANGED <<perm, asked, prompts, mappingItem, issued, ncalls>>
  /\ UNCHANGED appVars

\* cancelSessionReminderBySessionId: the lookup and the test on its result.
GetId(t) ==
  /\ task[t].pc = "getId"
  /\ LET n == GetNotificationIdBySessionId(task[t].sid) IN
     task' = [task EXCEPT ![t].pc = IF n = 0 THEN "idle" ELSE "cancelById",
                          ![t].nid = n]
  /\ UNCHANGED <<perm, asked, prompts, mappingItem, scheduled, issued, ncalls>>
  /\ UNCHANGED appVars

CancelById(t) ==
  /\ task[t].pc = "cancelById"
  /\ scheduled' = scheduled \ {task[t].nid}
  /\ task' = [task EXCEPT ![t].pc = "removeRead"]
  /\ UNCHANGED <<perm, asked, prompts, mappingItem, issued, ncalls>>
  /\ UNCHANGED appVars

RemoveRead(t) == ReadMapping(t, "removeRead", "removeWrite")

\* A removal that leaves the key in place.
RemovedMappingKept(mapping, s) == mapping

\* delete mapping[sessionId]
RemovedMapping(mapping, s) == [mapping EXCEPT ![s] = 0]

RemoveWrite(t) ==
  /\ task[t].pc = "removeWrite"
  /\ mappingItem' = Stringify(RemovedMapping(task[t].snap, task[t].sid))
  /\ task' = [task EXCEPT ![t].pc = "idle"]
  /\ UNCHANGED <<perm, asked, prompts, scheduled, issued, ncalls>>
  /\ UNCHANGED appVars

\* cancelAllReminders: cancelAllScheduledNotificationsAsync, then the
\* mapping item is set to {}.
CancelAll(t) ==
  /\ task[t].pc = "cancelAll"
  /\ scheduled' = {}
  /\ task' = [task EXCEPT ![t].pc = "clear"]
  /\ UNCHANGED <<perm, asked, prompts, mappingItem, issued, ncalls>>
  /\ UNCHANGED appVars

ClearMapping(t) ==
  /\ task[t].pc = "clear"
  /\ mappingItem' = Stringify(EmptyMapping)
  /\ task' = [task EXCEPT ![t].pc = "idle"]
  /\ UNCHANGED <<perm, asked, prompts, scheduled, issued, ncalls>>
  /\ UNCHANGED appVars

\* A pending call of the service moves on by one await.
ReminderStep(t) ==
  \/ GetPermissions(t)
  \/ HasAskedForPermission(t)
  \/ \E answer \in {"granted", "denied"} : RequestPermissions(t, answer)
  \/ MarkPermissionAsked(t)
  \/ ScheduleNotification(t)
  \/ SaveRead(t)
  \/ SaveWrite(t)
  \/ Cancel(t)
  \/ GetId(t)
  \/ CancelById(t)
  \/ RemoveRead(t)
  \/ RemoveWrite(t)
  \/ CancelAll(t)
  \/ ClearMapping(t)

\* A call of the service is made.
ReminderStart(t) ==
  \/ StartPermission(t)
  \/ \E s \in SessionIds : StartSchedule(t, s)
  \/ \E n \in 0..issued, s \in SessionIds \cup {NoSid} : StartCancel(t, n, s)
  \/ \E s \in SessionIds : StartCancelBySessionId(t, s)
  \/ StartCancelAll(t)

\* No call of the service is pending.
AllTasksIdle == \A t \in Tasks : task[t].pc = "idle"

\* ---------------------------------------------------------------- Init

Init ==
  /\ sessions = [s \in SessionIds |-> NoSession]
  /\ userOf \in {DistinctUsers, TwoDevices}
  /\ pc = [p \in Procs |-> "idle"]
  /\ target = [p \in Procs |-> "s1"]
  /\ readVersion = [p \in Procs |-> 0]
  /\ pending = [p \in Procs |-> NoPending]
  /\ attempts = [p \in Procs |-> 0]
  /\ result = [p \in Procs |-> NoOutcome]
  /\ rejoin = [p \in Procs |-> FALSE]
  /\ locationRatings = [l \in LocationIds |-> NoLocation]
  /\ rpc = [p \in Procs |-> "idle"]
  /\ rtarget = [p \in Procs |-> "L1"]
  /\ rarg = [p \in Procs |-> 0]
  /\ rsnap = [p \in Procs |-> NoLocation]
  /\ rcalls = 0
  /\ rresult = [p \in Procs |-> NoResult]
  /\ acked = [l \in LocationIds |-> [u \in Users |-> NoScore]]
  /\ topLocations = NoQuery
  /\ capacity = [p \in Procs |-> <<>>]
  /\ NotifInit

\* ------------------------------------------- CreateSessionModal.handleSubmit

\* The capacity check of handleSubmit: a non-empty input must parse to > 0.
CapacityRejected(input) ==
  LET t == Trim(input) IN
  t # <<>> /\ (ParseInt(t).nan \/ ParseInt(t).val <= 0)

\* The document addDoc writes.
NewSession(creator, input) ==
  LET t == Trim(input) IN
  [exists |-> TRUE,
   attendees |-> <<creator>>,
   hasCapacity |-> t # <<>>,
   capacity |-> IF t # <<>> THEN ParseInt(t).val ELSE 0,
   isFull |-> FALSE,
   version |-> 1]

CreateSession(p, s, input) ==
  /\ pc[p] = "idle"
  /\ ~sessions[s].exists
  /\ IF CapacityRejected(input)
     THEN /\ result' = [result EXCEPT
                       ![p] = [msg |-> InvalidCapacity, sid |-> s, tries |-> 0]]
          /\ UNCHANGED sessions
     ELSE /\ sessions' = [sessions EXCEPT ![s] = NewSession(userOf[p], input)]
          /\ result' = [result EXCEPT
                       ![p] = [msg |-> Created, sid |-> s, tries |-> 0]]
  /\ UNCHANGED <<userOf, pc, target, readVersion, pending, attempts, rejoin>>
  /\ UNCHANGED ratingVars

\* onChangeText={setCapacity}: the user edits the capacity field.
SetCapacity(p, text) ==
  /\ capacity' = [capacity EXCEPT ![p] = text]
  /\ UNCHANGED <<userOf, sessionVars, locationRatings, rpc, rtarget, rarg,
                 rsnap, rcalls, rresult, acked, topLocations, notifVars>>

\* handleSubmit on the form as it stands: the capacity check, then addDoc
\* and the reset of the form; a rejected form keeps its text.
HandleSubmit(p, s) ==
  /\ pc[p] = "idle"
  /\ ~sessions[s].exists
  /\ IF CapacityRejected(capacity[p])
     THEN /\ result' = [result EXCEPT
                       ![p] = [msg |-> InvalidCapacity, sid |-> s, tries |-> 0]]
          /\ UNCHANGED <<sessions, capacity>>
     ELSE /\ sessions' =
               [sessions EXCEPT ![s] = NewSession(userOf[p], capacity[p])]
          /\ result' = [result EXCEPT
                       ![p] = [msg |-> Created, sid |-> s, tries |-> 0]]
          /\ capacity' = [capacity EXCEPT ![p] = <<>>]
  /\ UNCHANGED <<userOf, pc, target, readVersion, pending, attempts, rejoin>>
  /\ UNCHANGED <<locationRatings, rpc, rtarget, rarg, rsnap, rcalls, rresult,
                 acked, topLocations, notifVars>>

\* SessionCard: disabled={session.isFull && !isUserJoined}, on the stored
\* document of session s for user u.
JoinDisabled(s, u) ==
  sessions[s].isFull /\ ~Includes(sessions[s].attendees, u)

\* ------------------------------------------------------ runTransaction

\* A commit that does not compare versions (a plain write).
UnchangedUnchecked(p) == TRUE

\* The commit of a transaction: the write lands only if the document has
\* not changed since the attempt read it.
Unchanged(p) == sessions[target[p]].version = readVersion[p]

\* A write that leaves no trace in the document's version.
UpdatedSameVersion(d, w) ==
  [d EXCEPT !.attendees = w.attendees, !.isFull = w.isFull]

\* A write that replaces the document by the fields it names.
UpdatedReplacing(d, w) ==
  [exists |-> TRUE, attendees |-> w.attendees, hasCapacity |-> FALSE,
   capacity |-> 0, isFull |-> w.isFull, version |-> d.version + 1]

\* transaction.update: sets the named fields, keeps the others.
Updated(d, w) ==
  [d EXCEPT !.attendees = w.attendees, !.isFull = w.isFull,
            !.version = d.version + 1]

\* A transaction that runs again after every conflict.
MayRetryAlways(p) == TRUE

\* One more attempt is left after a conflict.
MayRetry(p) == attempts[p] < MaxAttempts

Buffer(p, d, w) ==
  /\ readVersion' = [readVersion EXCEPT ![p] = d.version]
  /\ pending' = [pending EXCEPT ![p] = w]
  /\ UNCHANGED <<sessions, userOf, target, attempts, result, rejoin>>

\* A transaction that, after a conflict, takes note of the new version but
\* keeps the write it computed on the old document.
CommitKeepsStaleWrite(p, again, msg) ==
  IF Unchanged(p)
  THEN /\ sessions' = [sessions EXCEPT
                         ![target[p]] = Updated(sessions[target[p]], pending[p])]
       /\ Finish(p, msg)
       /\ UNCHANGED <<userOf, target, rejoin>>
  ELSE IF MayRetry(p)
       THEN /\ attempts' = [attempts EXCEPT ![p] = attempts[p] + 1]
            /\ readVersion' =
                 [readVersion EXCEPT ![p] = sessions[target[p]].version]
            /\ UNCHANGED <<sessions, userOf, target, result, rejoin, pc,
                           pending>>
       ELSE /\ Finish(p, Aborted)
            /\ UNCHANGED <<sessions, userOf, target, rejoin>>

\* The end of an attempt: the buffered write lands if the document is
\* unchanged; otherwise the transaction starts again from its read, or
\* fails when no attempt is left.
Commit(p, again, msg) ==
  IF Unchanged(p)
  THEN /\ sessions' = [sessions EXCEPT
                         ![target[p]] = Updated(sessions[target[p]], pending[p])]
       /\ Finish(p, msg)
       /\ UNCHANGED <<userOf, target, rejoin>>
  ELSE IF MayRetry(p)
       THEN /\ pc' = [pc EXCEPT ![p] = again]
            /\ attempts' = [attempts EXCEPT ![p] = attempts[p] + 1]
            /\ readVersion' = [readVersion EXCEPT ![p] = 0]
            /\ pending' = [pending EXCEPT ![p] = NoPending]
            /\ UNCHANGED <<sessions, userOf, target, result, rejoin>>
       ELSE /\ Finish(p, Aborted)
            /\ UNCHANGED <<sessions, userOf, target, rejoin>>

\* --------------------------------------------------- handleJoinSession

JoinStart(p, s) ==
  /\ UNCHANGED ratingVars
  /\ pc[p] = "idle"
  /\ RoomFor(s)
  /\ pc' = [pc EXCEPT ![p] = "join_get"]
  /\ target' = [target EXCEPT ![p] = s]
  /\ attempts' = [attempts EXCEPT ![p] = 1]
  /\ rejoin' = [rejoin EXCEPT
                  ![p] = result[p].msg = Joined /\ result[p].sid = s]
  /\ UNCHANGED <<sessions, userOf, readVersion, pending, result>>

\* Check 2 with > for >=: one attendee too many gets in.
JoinRejectsFullLax(d) ==
  CapacityTruthy(d) /\ Len(d.attendees) > d.capacity

\* Check 2 made on the size after the join: the last slot is refused.
JoinRejectsFullEarly(d) ==
  CapacityTruthy(d) /\ Len(d.attendees) + 1 >= d.capacity

\* Check 2 of the update function.
JoinRejectsFull(d) ==
  CapacityTruthy(d) /\ Len(d.attendees) >= d.capacity

\* isFull set one attendee early.
JoinIsFullOneEarly(d, newAttendees) ==
  IF CapacityTruthy(d) THEN Len(newAttendees) + 1 >= d.capacity ELSE FALSE

\* isFull computed without asking whether a capacity is set.
JoinIsFullAnyCapacity(d, newAttendees) == Len(newAttendees) >= d.capacity

\* The isFull the update function writes with the new attendees.
JoinIsFull(d, newAttendees) ==
  IF CapacityTruthy(d) THEN Len(newAttendees) >= d.capacity ELSE FALSE

JoinWrite(d, u) ==
  LET newAttendees == Append(d.attendees, u) IN
  [attendees |-> newAttendees, isFull |-> JoinIsFull(d, newAttendees)]

\* The two checks in the other order: capacity before membership.
JoinErrorFullFirst(d, u) ==
  IF ~d.exists THEN NotFound
  ELSE IF JoinRejectsFull(d) THEN SessionFull
  ELSE IF Includes(d.attendees, u) THEN AlreadyJoined
  ELSE NoResult

\* The update function without check 1 (the user is already listed).
JoinErrorNoMembership(d, u) ==
  IF ~d.exists THEN NotFound
  ELSE IF JoinRejectsFull(d) THEN SessionFull
  ELSE NoResult

\* The update function without its check that the document exists.
JoinErrorDocAssumed(d, u) ==
  IF Includes(d.attendees, u) THEN AlreadyJoined
  ELSE IF JoinRejectsFull(d) THEN SessionFull
  ELSE NoResult

\* The error the update function throws on document d for user u, in the
\* order of its checks (NoResult: it throws none).
JoinError(d, u) ==
  IF ~d.exists THEN NotFound
  ELSE IF Includes(d.attendees, u) THEN AlreadyJoined
  ELSE IF JoinRejectsFull(d) THEN SessionFull
  ELSE NoResult

\* transaction.get, then the update function up to its return or throw.
JoinAttempt(p) ==
  /\ UNCHANGED ratingVars
  /\ pc[p] = "join_get"
  /\ LET d == sessions[target[p]]
         u == userOf[p]
     IN IF JoinError(d, u) # NoResult
        THEN /\ Finish(p, JoinError(d, u))
             /\ UNCHANGED <<sessions, userOf, target, rejoin>>
        ELSE /\ pc' = [pc EXCEPT ![p] = "join_commit"]
             /\ Buffer(p, d, JoinWrite(d, u))

JoinCommit(p) ==
  /\ UNCHANGED ratingVars
  /\ pc[p] = "join_commit"
  /\ Commit(p, "join_get", Joined)

\* -------------------------------------------------- handleLeaveSession

LeaveStart(p, s) ==
  /\ UNCHANGED ratingVars
  /\ pc[p] = "idle"
  /\ RoomFor(s)
  /\ pc' = [pc EXCEPT ![p] = "leave_get"]
  /\ target' = [target EXCEPT ![p] = s]
  /\ attempts' = [attempts EXCEPT ![p] = 1]
  /\ rejoin' = [rejoin EXCEPT ![p] = FALSE]
  /\ UNCHANGED <<sessions, userOf, readVersion, pending, result>>

\* A leave that removes the user and leaves isFull as it was.
LeaveWriteStaleFull(d, u) ==
  [attendees |-> FilterOut(d.attendees, u), isFull |-> d.isFull]

\* A leave that clears isFull but leaves the list as it is.
LeaveWriteKeepsUser(d, u) ==
  [attendees |-> d.attendees, isFull |-> FALSE]

\* The fields the update function of a leave writes.
LeaveWrite(d, u) ==
  [attendees |-> FilterOut(d.attendees, u), isFull |-> FALSE]

\* The update function without its membership check.
LeaveErrorNoCheck(d, u) ==
  IF ~d.exists THEN NotFound ELSE NoResult

\* The error the update function throws on document d for user u.
LeaveError(d, u) ==
  IF ~d.exists THEN NotFound
  ELSE IF ~Includes(d.attendees, u) THEN NotAJoiner
  ELSE NoResult

LeaveAttempt(p) ==
  /\ UNCHANGED ratingVars
  /\ pc[p] = "leave_get"
  /\ LET d == sessions[target[p]]
         u == userOf[p]
     IN IF LeaveError(d, u) # NoResult
        THEN /\ Finish(p, LeaveError(d, u))
             /\ UNCHANGED <<sessions, userOf, target, rejoin>>
        ELSE /\ pc' = [pc EXCEPT ![p] = "leave_commit"]
             /\ Buffer(p, d, LeaveWrite(d, u))

LeaveCommit(p) ==
  /\ UNCHANGED ratingVars
  /\ pc[p] = "leave_commit"
  /\ Commit(p, "leave_get", Left)

\* ----------------------------------------------------- addOrUpdateRating

\* Scores a call may carry: the stars 2, 4 and 5, no star chosen (0), and
\* one score above the scale.
RatingInputs == {0, 2, 4, 5, 6}

\* The scores the modal can hold: userRating starts at 0 and StarRating
\* sets it to one of its five stars.
StarInputs == {r \in RatingInputs : r >= 0 /\ r <= 5}

Submitted == "Rating submitted!"
NoStar == "Please select a star rating"

RECURSIVE SumRatings(_)
SumRatings(rs) ==
  IF rs = <<>> THEN 0 ELSE Head(rs).rating + SumRatings(Tail(rs))

\* findIndex(r => r.userId === userId): 0 stands for -1, indices from 1.
RECURSIVE FindIndexFrom(_, _, _)
FindIndexFrom(rs, u, i) ==
  IF i > Len(rs) THEN 0
  ELSE IF rs[i].userId = u THEN i
  ELSE FindIndexFrom(rs, u, i + 1)

\* A search that never finds the user.
FindIndexNone(rs, u) == 0

\* existingRatings.findIndex(r => r.userId === userId), 1-based; 0 for -1.
FindIndex(rs, u) == FindIndexFrom(rs, u, 1)

\* updatedRatings with the new entry appended whatever the list holds.
UpdatedRatingsAppend(existingRatings, newRating) ==
  Append(existingRatings, newRating)

\* updatedRatings: the user's entry replaced in place, or appended.
UpdatedRatings(existingRatings, newRating) ==
  LET i == FindIndex(existingRatings, newRating.userId) IN
  IF i > 0 THEN [existingRatings EXCEPT ![i] = newRating]
  ELSE Append(existingRatings, newRating)

\* parseFloat((sum / total).toFixed(2)), in hundredths.
ToFixed2(sum, total) == (200 * sum + total) \div (2 * total)

\* The average cut to two decimals instead of rounded.
AverageTruncated(updatedRatings) ==
  IF Len(updatedRatings) > 0
  THEN (100 * SumRatings(updatedRatings)) \div Len(updatedRatings)
  ELSE 0

\* averageRating as updateDoc receives it, in hundredths.
AverageOf(updatedRatings) ==
  IF Len(updatedRatings) > 0
  THEN ToFixed2(SumRatings(updatedRatings), Len(updatedRatings))
  ELSE 0

\* The document after updateDoc.
UpdatedLocation(d, updatedRatings) ==
  [d EXCEPT !.ratings = updatedRatings,
            !.averageRating = AverageOf(updatedRatings),
            !.totalRatings = Len(updatedRatings)]

\* A first write that seeds the aggregate and leaves the rating out.
NewLocationEmpty(newRating) ==
  [exists |-> TRUE, ratings |-> <<>>, averageRating |-> 0, totalRatings |-> 0]

\* The document setDoc writes.
NewLocation(newRating) ==
  [exists |-> TRUE, ratings |-> <<newRating>>,
   averageRating |-> 100 * newRating.rating, totalRatings |-> 1]

\* What the call writes, given the snapshot it read and the stored document:
\* updateDoc changes three fields of the stored document, setDoc replaces it.
Written(stored, snap, newRating) ==
  IF snap.exists
  THEN UpdatedLocation(stored, UpdatedRatings(snap.ratings, newRating))
  ELSE NewLocation(newRating)

\* addOrUpdateRating up to its first await: getDoc returns the document.
RateRead(p, l, r) ==
  /\ rpc[p] = "idle"
  /\ rcalls < MaxRateCalls
  /\ rpc' = [rpc EXCEPT ![p] = "write"]
  /\ rtarget' = [rtarget EXCEPT ![p] = l]
  /\ rarg' = [rarg EXCEPT ![p] = r]
  /\ rsnap' = [rsnap EXCEPT ![p] = locationRatings[l]]
  /\ rcalls' = rcalls + 1
  /\ UNCHANGED <<locationRatings, acked>>

\* A direct call of the exported function.
AddOrUpdateRating(p, l, r) ==
  /\ RateRead(p, l, r)
  /\ UNCHANGED <<userOf, sessionVars, rresult, topLocations, extraVars>>

\* LocationRatingModal.handleSubmitRating with userRating = r.
HandleSubmitRating(p, l, r) ==
  /\ rpc[p] = "idle"
  /\ IF r = 0
     THEN /\ rresult' = [rresult EXCEPT ![p] = NoStar]
          /\ UNCHANGED <<locationRatings, rpc, rtarget, rarg, rsnap, rcalls,
                         acked>>
     ELSE /\ RateRead(p, l, r)
          /\ UNCHANGED rresult
  /\ UNCHANGED <<userOf, sessionVars, topLocations, extraVars>>

\* The rest of addOrUpdateRating: updateDoc or setDoc, then the return.
RateWrite(p) ==
  /\ rpc[p] = "write"
  /\ LET l == rtarget[p]
         newRating == [userId |-> userOf[p], rating |-> rarg[p]]
     IN /\ locationRatings' =
             [locationRatings EXCEPT
                ![l] = Written(locationRatings[l], rsnap[p], newRating)]
        /\ acked' = [acked EXCEPT ![l][userOf[p]] = rarg[p]]
  /\ rpc' = [rpc EXCEPT ![p] = "idle"]
  /\ rsnap' = [rsnap EXCEPT ![p] = NoLocation]
  /\ rarg' = [rarg EXCEPT ![p] = 0]
  /\ rresult' = [rresult EXCEPT ![p] = Submitted]
  /\ UNCHANGED <<userOf, sessionVars, rtarget, rcalls, topLocations,
                 extraVars>>

\* -------------------------------------------------- getTopRatedLocations

\* Document ids in the store's name order.
NameRank(l) == CASE l = "L1" -> 1 [] l = "L2" -> 2 [] OTHER -> 3

\* orderBy('averageRating', 'desc'): the only ordering the query asks for.
\* Among equal averages the store falls back on the document name, in the
\* direction of the last orderBy.
OrderedBefore(a, b) ==
  \/ locationRatings[a].averageRating > locationRatings[b].averageRating
  \/ /\ locationRatings[a].averageRating = locationRatings[b].averageRating
     /\ NameRank(a) > NameRank(b)

\* The documents of the collection.
Stored == {l \in LocationIds : locationRatings[l].exists}

\* Place of document l in the query's order.
PlaceOf(l) == 1 + Cardinality({m \in Stored : OrderedBefore(m, l)})

\* query(..., orderBy('averageRating', 'desc'), limit(limitCount)): the ids
\* of snapshot.docs, in order.
GetTopRatedLocations(limitCount) ==
  LET n == IF Cardinality(Stored) < limitCount
           THEN Cardinality(Stored) ELSE limitCount
  IN [i \in 1..n |-> CHOOSE l \in Stored : PlaceOf(l) = i]

\* loadTopLocations: setTopLocations(await getTopRatedLocations(limit)).
LoadTopLocations(limitCount) ==
  /\ topLocations' =
       [limit |-> limitCount, ids |-> GetTopRatedLocations(limitCount)]
  /\ UNCHANGED <<userOf, sessionVars, locationRatings, rpc, rtarget, rarg,
                 rsnap, rcalls, rresult, acked, extraVars>>

\* Rating lists some locations may have collected, as sequences of scores.
SampleScores ==
  { <<4, 5>>, <<5, 4, 4, 5>>, <<5, 4>>, <<2, 4>>, <<5>> }

\* The users who gave them.
SampleUsers == <<"A", "B", "C", "D">>

\* The document addOrUpdateRating leaves after these scores, one user each.
SampleLocation(scores) ==
  LET rs == [i \in 1..Len(scores) |->
               [userId |-> SampleUsers[i], rating |-> scores[i]]]
  IN [exists |-> TRUE, ratings |-> rs, averageRating |-> AverageOf(rs),
      totalRatings |-> Len(rs)]

\* A collection of rated locations, before any query.
InitTop ==
  /\ sessions = [s \in SessionIds |-> NoSession]
  /\ userOf = DistinctUsers
  /\ pc = [p \in Procs |-> "idle"]
  /\ target = [p \in Procs |-> "s1"]
  /\ readVersion = [p \in Procs |-> 0]
  /\ pending = [p \in Procs |-> NoPending]
  /\ attempts = [p \in Procs |-> 0]
  /\ result = [p \in Procs |-> NoOutcome]
  /\ rejoin = [p \in Procs |-> FALSE]
  /\ locationRatings \in
       [LocationIds -> {NoLocation} \cup {SampleLocation(s) : s \in SampleScores}]
  /\ rpc = [p \in Procs |-> "idle"]
  /\ rtarget = [p \in Procs |-> "L1"]
  /\ rarg = [p \in Procs |-> 0]
  /\ rsnap = [p \in Procs |-> NoLocation]
  /\ rcalls = 0
  /\ rresult = [p \in Procs |-> NoResult]
  /\ acked = [l \in LocationIds |-> [u \in Users |-> NoScore]]
  /\ topLocations = NoQuery
  /\ capacity = [p \in Procs |-> <<>>]
  /\ NotifInit

\* ---------------------------------------------------------------- Next

\* The session handlers, on the sessions of S.
SessionNext(S) ==
  \E p \in Procs :
    \/ \E s \in S, input \in CapacityInputs : CreateSession(p, s, input)
    \/ \E s \in S : JoinStart(p, s)
    \/ JoinAttempt(p)
    \/ JoinCommit(p)
    \/ \E s \in S : LeaveStart(p, s)
    \/ LeaveAttempt(p)
    \/ LeaveCommit(p)

\* The rating calls, on the locations of L.
RatingNext(L) ==
  \E p \in Procs :
    \/ \E l \in L, r \in RatingInputs : AddOrUpdateRating(p, l, r)
    \/ \E l \in L, r \in StarInputs : HandleSubmitRating(p, l, r)
    \/ RateWrite(p)

\* The rating modal alone: every score comes from the stars.
ModalNext ==
  \E p \in Procs :
    \/ \E r \in StarInputs : HandleSubmitRating(p, "L1", r)
    \/ RateWrite(p)

Next == SessionNext({"s1"})

Spec == Init /\ [][Next]_vars

RatingsNext == RatingNext({"L1"})

SpecRatings == Init /\ [][RatingsNext]_vars

SpecModal == Init /\ [][ModalNext]_vars

\* Two clients on one session and a third rating a location meanwhile,
\* every started call being run on: a pending promise is resumed by the
\* event loop, and the store answers every request.
CallsNext ==
  \/ \E p \in {"p1", "p2"} :
       \/ \E input \in {<<>>, <<"1">>} : CreateSession(p, "s1", input)
       \/ JoinStart(p, "s1")
       \/ JoinAttempt(p)
       \/ JoinCommit(p)
       \/ LeaveStart(p, "s1")
       \/ LeaveAttempt(p)
       \/ LeaveCommit(p)
  \/ \E p \in {"p3"} :
       \/ AddOrUpdateRating(p, "L1", 4)
       \/ RateWrite(p)

CallsFair ==
  \A p \in Procs :
    /\ WF_vars(JoinAttempt(p))
    /\ WF_vars(JoinCommit(p))
    /\ WF_vars(LeaveAttempt(p))
    /\ WF_vars(LeaveCommit(p))
    /\ WF_vars(RateWrite(p))

InitCalls == Init /\ userOf = DistinctUsers

SpecCalls == InitCalls /\ [][CallsNext]_vars /\ CallsFair

\* Two clients on two sessions.
TwoSessionsNext ==
  \E p \in {"p1", "p2"} :
    \/ \E s \in SessionIds, input \in {<<>>, <<"1">>} :
         CreateSession(p, s, input)
    \/ \E s \in SessionIds : JoinStart(p, s)
    \/ JoinAttempt(p)
    \/ JoinCommit(p)
    \/ \E s \in SessionIds : LeaveStart(p, s)
    \/ LeaveAttempt(p)
    \/ LeaveCommit(p)

SpecTwoSessions == InitCalls /\ [][TwoSessionsNext]_vars

\* The creation form alone, on two clients: typing a capacity, submitting.
CreateNext ==
  \E p \in {"p1", "p2"} :
    \/ \E text \in CapacityInputs : SetCapacity(p, text)
    \/ \E s \in SessionIds : HandleSubmit(p, s)

SpecCreate == Init /\ [][CreateNext]_vars

\* The notification service, its calls overlapping at their awaits.
RemindersNext ==
  \E t \in Tasks : ReminderStart(t) \/ ReminderStep(t)

SpecReminders == Init /\ [][RemindersNext]_vars

\* The notification service, each call made after the one before returned.
RemindersInTurnNext ==
  \E t \in Tasks : (AllTasksIdle /\ ReminderStart(t)) \/ ReminderStep(t)

SpecRemindersInTurn == Init /\ [][RemindersInTurnNext]_vars

\* The map screen's query over a rated collection.
TopNext == \E limitCount \in 1..3 : LoadTopLocations(limitCount)

SpecTop == InitTop /\ [][TopNext]_vars

\* ------------------------------------------------------------- claims

AttendeeSet(s) == Range(sessions[s].attendees)

Size(s) == Len(sessions[s].attendees)

CapacitySet(s) == sessions[s].exists /\ sessions[s].hasCapacity

\* The step is client p's transaction.get and update function.
JoinAttemptStep(p) == pc[p] = "join_get" /\ pc'[p] # "join_get"

LeaveAttemptStep(p) == pc[p] = "leave_get" /\ pc'[p] # "leave_get"

\* The step is client p's commit, and the write landed.
JoinCommitted(p) ==
  pc[p] = "join_commit" /\ pc'[p] = "idle" /\ result'[p].msg = Joined

\* C1: on a session whose capacity is set, the stored attendees list never
\* has more entries than the capacity, whatever the interleaving of joins.
CapacityNeverExceeded ==
  \A s \in SessionIds :
    CapacitySet(s) => Size(s) <= sessions[s].capacity

\* C1 witness: a session filled to its capacity of 2 by a join that lost a
\* commit to a concurrent writer and went through on its second attempt.
FilledUnderContention ==
  \E p \in Procs :
    /\ CapacitySet("s1") /\ sessions["s1"].capacity = 2 /\ Size("s1") = 2
    /\ pc[p] = "idle" /\ result[p].msg = Joined /\ result[p].tries = 2
    /\ sessions["s1"].attendees[2] = userOf[p]

\* C2: of the joins racing for the last slot, no two commit a claim on it:
\* a join's write lands only on the very document its attempt read, takes
\* a slot that is free in the stored document and appends exactly its user;
\* the first racer to commit succeeds, and the other, re-reading after its
\* conflict, finds |attendees| = capacity and gets 'Session is full' with
\* the document untouched.
LastSlotClaimedOnce ==
  [][\A p \in Procs :
       LET d == sessions[target[p]] IN
       /\ JoinCommitted(p) =>
            /\ d.hasCapacity => Len(d.attendees) < d.capacity
            /\ sessions'[target[p]].attendees = Append(d.attendees, userOf[p])
       /\ (pc[p] = "join_commit" /\ pc'[p] # "join_commit"
             /\ d.version = readVersion[p]) => JoinCommitted(p)
       /\ (JoinAttemptStep(p) /\ attempts[p] > 1 /\ CapacitySet(target[p])
             /\ Len(d.attendees) = d.capacity
             /\ userOf[p] \notin Range(d.attendees)) =>
            /\ result'[p].msg = SessionFull
            /\ pc'[p] = "idle"
            /\ sessions' = sessions
    ]_vars

\* C2 witness: capacity 1, the creator has left (version 2), then two
\* clients both read the empty list; one joined on its first attempt
\* (version 3) and the other, on its second attempt, was told the session
\* is full.
LastSlotRaceDecided ==
  \E p, q \in Procs :
    /\ p # q
    /\ CapacitySet("s1") /\ sessions["s1"].capacity = 1
    /\ sessions["s1"].version = 3
    /\ sessions["s1"].attendees = <<userOf[p]>>
    /\ pc[p] = "idle" /\ result[p].msg = Joined /\ result[p].tries = 1
    /\ pc[q] = "idle" /\ result[q].msg = SessionFull /\ result[q].tries = 2

\* C5 (as claimed): in every state of a session document, isFull equals
\* (capacity is set and |attendees| = capacity).
IsFullMatchesCapacity ==
  \A s \in SessionIds :
    sessions[s].exists =>
      (sessions[s].isFull =
         (sessions[s].hasCapacity /\ Size(s) = sessions[s].capacity))

\* C7: a join by a user who is not an attendee is not rejected when the
\* document its attempt reads has room, and the attempt that commits adds
\* the user and answers 'Joined!'; a capacity-2 session holding two
\* attendees has isFull = true and a further user's join is answered
\* 'Session is full'.
JoinSucceedsWhenRoom ==
  /\ [](\A s \in SessionIds :
          (CapacitySet(s) /\ sessions[s].capacity = 2 /\ Size(s) = 2)
            => sessions[s].isFull)
  /\ [][\A p \in Procs :
          LET d == sessions[target[p]] IN
          /\ (JoinAttemptStep(p) /\ d.exists
                /\ userOf[p] \notin Range(d.attendees)
                /\ ~(d.hasCapacity /\ Len(d.attendees) >= d.capacity))
               => pc'[p] = "join_commit"
          /\ (pc[p] = "join_commit" /\ pc'[p] # "join_commit"
                /\ d.version = readVersion[p]) =>
               /\ result'[p].msg = Joined
               /\ userOf[p] \in AttendeeSet(target[p])'
               /\ Size(target[p])' = Len(d.attendees) + 1
          /\ (JoinAttemptStep(p) /\ CapacitySet(target[p]) /\ d.capacity = 2
                /\ Len(d.attendees) = 2
                /\ userOf[p] \notin Range(d.attendees))
               => result'[p].msg = SessionFull
       ]_vars

\* C7 witness: the scenario.  Capacity 2, A and B joined concurrently (the
\* second to commit needed a second attempt), attendees = {A, B}, isFull,
\* and C's later join was answered 'Session is full'.
ScenarioTwoJoinThirdFull ==
  /\ userOf = DistinctUsers
  /\ CapacitySet("s1") /\ sessions["s1"].capacity = 2
  /\ AttendeeSet("s1") = {"A", "B"} /\ sessions["s1"].isFull
  /\ \A p \in Procs : pc[p] = "idle"
  /\ result["p1"].msg = Joined /\ result["p2"].msg = Joined
  /\ result["p1"].tries + result["p2"].tries = 3
  /\ result["p3"].msg = SessionFull

\* C8: a join that follows the same user's successful join on the same
\* session is answered 'You are already in this session', also when the
\* first join filled the session, and leaves the document as it is.
SecondJoinAlreadyJoined ==
  [][\A p \in Procs :
       (rejoin[p] /\ Solo(userOf, p) /\ pc[p] # "idle" /\ pc'[p] = "idle")
         => /\ result'[p].msg = AlreadyJoined
            /\ sessions' = sessions
    ]_vars

\* C8 witness: the second join was answered while the session, filled by
\* the first, was full.
SecondJoinOnFullSession ==
  \E p \in Procs :
    /\ rejoin[p] /\ Solo(userOf, p) /\ pc[p] = "idle"
    /\ result[p].msg = AlreadyJoined
    /\ CapacitySet(result[p].sid)
    /\ Size(result[p].sid) = sessions[result[p].sid].capacity
    /\ sessions[result[p].sid].attendees[Size(result[p].sid)] = userOf[p]

\* C9: a leave whose attempt reads a document without the user is answered
\* 'You are not in this session' at once and no document changes, version
\* included.
LeaveOfAbsentUserRejected ==
  [][\A p \in Procs :
       LET d == sessions[target[p]] IN
       (LeaveAttemptStep(p) /\ d.exists /\ userOf[p] \notin Range(d.attendees))
         => /\ result'[p].msg = NotAJoiner
            /\ pc'[p] = "idle"
            /\ sessions' = sessions
    ]_vars

\* C9 witness: a leave was rejected on a session that others have written
\* to since its creation.
LeaveRejectedSeen ==
  \E p \in Procs :
    /\ pc[p] = "idle" /\ result[p].msg = NotAJoiner
    /\ sessions[result[p].sid].exists
    /\ sessions[result[p].sid].version > 1
    /\ userOf[p] \notin AttendeeSet(result[p].sid)

\* ---- ratings

Raters(l) == {u \in Users : acked[l][u] # NoScore}

RECURSIVE SumAcked(_, _)
SumAcked(l, us) ==
  IF us = {} THEN 0
  ELSE LET u == CHOOSE x \in us : TRUE
       IN acked[l][u] + SumAcked(l, us \ {u})

Abs(x) == IF x < 0 THEN 0 - x ELSE x

HasEntry(d, u) == \E i \in 1..Len(d.ratings) : d.ratings[i].userId = u

Quiescent == \A p \in Procs : rpc[p] = "idle"

\* C3 (as claimed): once the calls of distinct users have all returned,
\* totalRatings is the number of users whose call succeeded and
\* averageRating is within 0.01 of the mean of their latest scores.
AggregateMatchesCallers ==
  \A l \in LocationIds :
    (userOf = DistinctUsers /\ Quiescent /\ Raters(l) # {}) =>
      /\ locationRatings[l].totalRatings = Cardinality(Raters(l))
      /\ Abs(100 * SumAcked(l, Raters(l))
               - locationRatings[l].averageRating * Cardinality(Raters(l)))
           <= Cardinality(Raters(l))

\* C4 (as claimed): the write of a user who re-rates (the document the call
\* read already held the user's entry) removes no other user's entry from
\* the stored document.
ReRateKeepsOthers ==
  [][\A p \in Procs :
       (rpc[p] = "write" /\ rpc'[p] = "idle" /\ HasEntry(rsnap[p], userOf[p]))
         => \A u \in Users :
              HasEntry(locationRatings[rtarget[p]], u)
                => HasEntry(locationRatings'[rtarget[p]], u)
    ]_vars

\* C6: in every state of a location rating document, totalRatings is the
\* number of entries of ratings and averageRating is the mean of their
\* scores rounded to two decimals (h hundredths with |mean - h/100| at most
\* 0.005, the half rounded up); a location without document has neither.
AggregateConsistent ==
  \A l \in LocationIds :
    LET d == locationRatings[l]
        n == Len(d.ratings)
        h == d.averageRating
    IN IF d.exists
       THEN /\ n > 0
            /\ d.totalRatings = n
            /\ 2 * n * h - n <= 200 * SumRatings(d.ratings)
            /\ 200 * SumRatings(d.ratings) < 2 * n * h + n
       ELSE d.totalRatings = 0 /\ h = 0 /\ n = 0

\* C6 witness: three users' entries whose mean has no exact two-decimal
\* form, so the stored average is a rounded one, rounded up.
RoundedAverageStored ==
  LET d == locationRatings["L1"] IN
  /\ d.exists /\ Len(d.ratings) = 3
  /\ d.averageRating * 3 > 100 * SumRatings(d.ratings)

\* C10 (as claimed): every score stored in a rating document is an integer
\* from 1 to 5.
StoredScoresInRange ==
  \A l \in LocationIds :
    \A i \in 1..Len(locationRatings[l].ratings) :
      locationRatings[l].ratings[i].rating \in 1..5

\* ---- getTopRatedLocations

\* The order the claim asks for: average descending, then count descending,
\* then id ascending.
ClaimedBefore(a, b) ==
  LET da == locationRatings[a]
      db == locationRatings[b]
  IN \/ da.averageRating > db.averageRating
     \/ /\ da.averageRating = db.averageRating
        /\ \/ da.totalRatings > db.totalRatings
           \/ da.totalRatings = db.totalRatings /\ NameRank(a) < NameRank(b)

\* C11 (as claimed): a query with limit k returns the first k locations in
\* the order average descending, count descending, id ascending.
TopRatedInClaimedOrder ==
  topLocations.limit > 0 =>
    \A i \in 1..Len(topLocations.ids) :
      Cardinality({m \in Stored : ClaimedBefore(m, topLocations.ids[i])}) = i - 1

\* ---- errors of the update function

\* Client p's own state in a join or leave call.
CallState(p) == <<pc[p], attempts[p], readVersion[p], pending[p], result[p]>>

\* The error the update function of client p's call throws on the stored
\* document (NoResult: none).
ErrorNow(p) ==
  CASE pc[p] = "join_get" -> JoinError(sessions[target[p]], userOf[p])
    [] pc[p] = "leave_get" -> LeaveError(sessions[target[p]], userOf[p])
    [] OTHER -> NoResult

\* C12: when the update function of a join or leave throws 'already
\* joined', 'session is full' or 'not in this session', the call ends in
\* that very step with that error and the document untouched: no further
\* read, re-run or write follows. An attempt is started again only from a
\* commit that found the document changed since its read.
BusinessErrorEndsCall ==
  [][\A p \in Procs :
       /\ (ErrorNow(p) \in BusinessErrors /\ CallState(p)' # CallState(p)) =>
            /\ pc'[p] = "idle"
            /\ result'[p].msg = ErrorNow(p)
            /\ result'[p].tries = attempts[p]
            /\ attempts'[p] = 0
            /\ sessions' = sessions
       /\ (attempts[p] >= 1 /\ attempts'[p] > attempts[p]) =>
            /\ pc[p] \in {"join_commit", "leave_commit"}
            /\ sessions[target[p]].version # readVersion[p]
            /\ sessions' = sessions
    ]_vars

\* C12 witness: two devices of one user joined at once; the second lost
\* its commit, ran again, found the user listed and ended with 'already
\* joined' on that second attempt, while a third client's leave was
\* refused on its first.
BusinessErrorAfterRetry ==
  \E p, q \in Procs :
    /\ pc[p] = "idle" /\ result[p].msg = AlreadyJoined /\ result[p].tries = 2
    /\ pc[q] = "idle" /\ result[q].msg = NotAJoiner /\ result[q].tries = 1

\* ---- termination

LeaveCommitted(p) ==
  pc[p] = "leave_commit" /\ pc'[p] = "idle" /\ result'[p].msg = Left

\* C14: the writes to one session document are linearized. A join or
\* leave that commits overwrites exactly the document version its attempt
\* read, and its checks hold of that stored document: the joiner is not
\* listed and a slot is free, the leaver is listed; what it writes is that
\* document with the user appended or removed. A commit that conflicts
\* drops its write, and the next attempt reads the stored document anew
\* and computes its write from it.
WritesLinearized ==
  [][\A p \in Procs :
       LET d == sessions[target[p]]
           e == sessions'[target[p]]
           u == userOf[p]
       IN
       /\ JoinCommitted(p) =>
            /\ d.exists /\ d.version = readVersion[p]
            /\ ~Includes(d.attendees, u)
            /\ CapacityTruthy(d) => Len(d.attendees) < d.capacity
            /\ e.attendees = Append(d.attendees, u)
            /\ e.version = d.version + 1
       /\ LeaveCommitted(p) =>
            /\ d.exists /\ d.version = readVersion[p]
            /\ Includes(d.attendees, u)
            /\ e.attendees = FilterOut(d.attendees, u)
            /\ e.version = d.version + 1
       /\ (pc[p] \in {"join_commit", "leave_commit"}
             /\ CallState(p)' # CallState(p)
             /\ d.version # readVersion[p]) =>
            /\ sessions' = sessions
            /\ pending'[p] = NoPending
            /\ pc'[p] \in {"idle", "join_get", "leave_get"}
       /\ (pc[p] \in {"join_get", "leave_get"}
             /\ pc'[p] \in {"join_commit", "leave_commit"}) =>
            /\ readVersion'[p] = d.version
            /\ pending'[p].attendees =
                 IF pc[p] = "join_get" THEN Append(d.attendees, u)
                 ELSE FilterOut(d.attendees, u)
    ]_vars

\* C14 witness: a leave lost its first commit to another client's write,
\* read the document again and committed on its second attempt; the user
\* is gone from the list and the other client's user is still on it.
LeaveCommittedOnReread ==
  \E p, q \in Procs :
    /\ pc[p] = "idle" /\ result[p].msg = Left /\ result[p].tries = 2
    /\ pc[q] = "idle" /\ result[q].msg = Joined /\ userOf[q] # userOf[p]
    /\ userOf[p] \notin AttendeeSet("s1")
    /\ userOf[q] \in AttendeeSet("s1")

\* ---- versions

\* The step is client p's creation of a session.
Creates(p, s) ==
  pc'[p] = "idle" /\ pc[p] = "idle" /\ result'[p] # result[p]
  /\ result'[p].msg = Created /\ result'[p].sid = s

NoCapacityNeverFull ==
  /\ [](\A s \in SessionIds :
          (sessions[s].exists /\ ~sessions[s].hasCapacity) =>
            ~sessions[s].isFull)
  /\ [][\A p \in Procs :
         (JoinAttemptStep(p) /\ sessions[target[p]].exists
            /\ ~sessions[target[p]].hasCapacity) =>
           /\ result'[p].msg # SessionFull
           /\ ~Includes(sessions[target[p]].attendees, userOf[p]) =>
                pc'[p] = "join_commit"
      ]_vars

\* C16 witness: a session created without a capacity holds all three
\* users, the last two by joins that went through.
NoCapacityAllJoined ==
  /\ sessions["s1"].exists /\ ~sessions["s1"].hasCapacity
  /\ AttendeeSet("s1") = Users
  /\ ~sessions["s1"].isFull
  /\ Cardinality({p \in Procs : pc[p] = "idle" /\ result[p].msg = Joined}) = 2

\* ---- joining again

\* C17: a user who has left may join again. A join attempt ends with
\* 'already joined' only when the user is on the stored list at that
\* moment; and when the last call of the user's only client on that
\* session was a leave that went through, the join is not refused as
\* 'already joined': it goes on to its commit unless the session is full.
RejoinAfterLeavePermitted ==
  [][\A p \in Procs :
       LET d == sessions[target[p]]
           u == userOf[p]
       IN
       /\ (JoinAttemptStep(p) /\ pc'[p] = "idle"
             /\ result'[p].msg = AlreadyJoined) =>
            u \in Range(d.attendees)
       /\ (JoinAttemptStep(p) /\ Solo(userOf, p)
             /\ result[p].msg = Left /\ result[p].sid = target[p]) =>
            /\ u \notin Range(d.attendees)
            /\ IF d.hasCapacity /\ Len(d.attendees) >= d.capacity
               THEN pc'[p] = "idle" /\ result'[p].msg = SessionFull
               ELSE pc'[p] = "join_commit"
    ]_vars

\* C17 witness: one client alone wrote the session three times (the other
\* clients have completed no call): it created it, left it and joined it
\* again, and it is the only attendee.
RejoinedAfterLeave ==
  \E p \in Procs :
    /\ Solo(userOf, p)
    /\ \A q \in Procs : pc[q] = "idle"
    /\ \A q \in Procs \ {p} : result[q] = NoOutcome
    /\ result[p].msg = Joined
    /\ sessions["s1"].exists /\ sessions["s1"].version = 3
    /\ sessions["s1"].attendees = <<userOf[p]>>

\* ---- sessions that do not exist

\* C18: a join or leave on a session id with no document ends in its first
\* step with 'Session does not exist', makes no further attempt, and
\* creates no document: a document comes into existence only by the
\* creation form.
MissingSessionNotFound ==
  [][\A p \in Procs :
       /\ (pc[p] \in {"join_get", "leave_get"}
             /\ CallState(p)' # CallState(p)
             /\ ~sessions[target[p]].exists) =>
            /\ pc'[p] = "idle"
            /\ result'[p].msg = NotFound
            /\ result'[p].sid = target[p]
            /\ result'[p].tries = attempts[p]
            /\ attempts'[p] = 0
            /\ sessions' = sessions
       /\ \A s \in SessionIds :
            (~sessions[s].exists /\ sessions'[s] # sessions[s]) =>
              \E q \in Procs : Creates(q, s)
    ]_vars

\* C18 witness: two clients' calls on the id of a session that was never
\* created have both ended with 'Session does not exist' on their first
\* attempt, and there is still no document.
MissingSessionRefused ==
  \E p, q \in Procs :
    /\ p # q
    /\ sessions["s1"] = NoSession
    /\ pc[p] = "idle" /\ result[p] = [msg |-> NotFound, sid |-> "s1", tries |-> 1]
    /\ pc[q] = "idle" /\ result[q] = [msg |-> NotFound, sid |-> "s1", tries |-> 1]

\* ---- rating again

\* The step is client p's write, made on the document as p read it: no
\* other write came between p's getDoc and its updateDoc.
SequentialWrite(p) ==
  /\ rpc[p] = "write" /\ rpc'[p] = "idle"
  /\ rsnap[p] = locationRatings[rtarget[p]]

\* The score user u has in document d.
ScoreOf(d, u) ==
  LET i == CHOOSE j \in 1..Len(d.ratings) : d.ratings[j].userId = u
  IN d.ratings[i].rating

\* C19: in a run without overlapping calls, a rating from a user who
\* already has an entry leaves totalRatings as it was and sets
\* averageRating to the mean of the scores with the user's old score
\* replaced by the new one (to the nearest hundredth, as the document
\* stores it); the other users' entries stay. With A at 4 and B at 5
\* (average 4.5), A rating 2 gives totalRatings 2 and average 3.5.
ReRateKeepsCount ==
  [][\A p \in Procs :
       LET l == rtarget[p]
           d == locationRatings[l]
           e == locationRatings'[l]
           u == userOf[p]
       IN
       (SequentialWrite(p) /\ HasEntry(d, u)) =>
         LET sum == SumRatings(d.ratings) - ScoreOf(d, u) + rarg[p] IN
         /\ e.totalRatings = d.totalRatings
         /\ Len(e.ratings) = Len(d.ratings)
         /\ 2 * Abs(100 * sum - e.totalRatings * e.averageRating)
              <= e.totalRatings
         /\ \A i \in 1..Len(d.ratings) :
              e.ratings[i] = IF d.ratings[i].userId = u
                             THEN [userId |-> u, rating |-> rarg[p]]
                             ELSE d.ratings[i]
         /\ (d.ratings = <<[userId |-> "A", rating |-> 4],
                           [userId |-> "B", rating |-> 5]>>
               /\ d.averageRating = 450 /\ u = "A" /\ rarg[p] = 2) =>
              (e.totalRatings = 2 /\ e.averageRating = 350)
    ]_vars

\* C19 witness: after three calls by two users, all returned, the location
\* holds A's second score 2 and B's 5, totalRatings 2 and average 3.50.
ReRatedTo350 ==
  /\ userOf = DistinctUsers /\ Quiescent /\ rcalls = 3
  /\ locationRatings["L1"] =
       [exists |-> TRUE,
        ratings |-> <<[userId |-> "A", rating |-> 2],
                      [userId |-> "B", rating |-> 5]>>,
        averageRating |-> 350, totalRatings |-> 2]
  /\ acked["L1"]["A"] = 2 /\ acked["L1"]["B"] = 5

\* ---- one entry per user

\* The entries user u has in document d.
EntriesOf(d, u) == {i \in 1..Len(d.ratings) : d.ratings[i].userId = u}

\* C20: in every reachable state each user has at most one entry in the
\* ratings of a location, also after the user rated again and after two
\* of the user's devices rated at the same time.
OneEntryPerUser ==
  \A l \in LocationIds : \A u \in Users :
    Cardinality(EntriesOf(locationRatings[l], u)) <= 1

\* C20 witness: another user's entry is stored, and both devices of user A
\* have rated (three calls, all returned); A has the one entry, with the
\* score of the later write.
TwoDevicesOneEntry ==
  /\ userOf = TwoDevices /\ Quiescent /\ rcalls = 3
  /\ rresult["p1"] = Submitted /\ rresult["p3"] = Submitted
  /\ rresult["p2"] = Submitted
  /\ Len(locationRatings["L1"].ratings) = 2
  /\ Cardinality(EntriesOf(locationRatings["L1"], "A")) = 1
  /\ ScoreOf(locationRatings["L1"], "A") = acked["L1"]["A"]

\* ---- the first rating of a location

\* C21: a rating call whose getDoc found no document does not fail: it
\* returns normally and its write leaves a document that holds exactly the
\* caller's entry, totalRatings 1 and averageRating equal to the score.
FirstRatingCreates ==
  [][\A p \in Procs :
       (rpc[p] = "write" /\ rpc'[p] = "idle" /\ ~rsnap[p].exists) =>
         /\ rresult'[p] = Submitted
         /\ locationRatings'[rtarget[p]] =
              [exists |-> TRUE,
               ratings |-> <<[userId |-> userOf[p], rating |-> rarg[p]]>>,
               averageRating |-> 100 * rarg[p],
               totalRatings |-> 1]
    ]_vars

\* C21 witness: one call has been made and has returned; the location's
\* document now exists with B's 5 as its only entry, count 1, average 5.
FirstRatingStored ==
  /\ Quiescent /\ rcalls = 1
  /\ \E p \in Procs : userOf[p] = "B" /\ rresult[p] = Submitted
  /\ locationRatings["L1"] =
       [exists |-> TRUE, ratings |-> <<[userId |-> "B", rating |-> 5]>>,
        averageRating |-> 500, totalRatings |-> 1]

\* ---- attendees as a set

\* C22: no user id occurs twice in the stored attendees of a session, in
\* any reachable state: after creation and any interleaving of joins and
\* leaves, also by two devices of one user.
AttendeesDistinct ==
  \A s \in SessionIds :
    \A i, j \in 1..Len(sessions[s].attendees) :
      sessions[s].attendees[i] = sessions[s].attendees[j] => i = j

\* C22 witness: both devices of user A tried to join a session created by
\* another user; one join went through, the other was refused as 'already
\* joined', and A is on the list once.
SecondDeviceRefused ==
  /\ userOf = TwoDevices
  /\ pc["p1"] = "idle" /\ pc["p3"] = "idle"
  /\ {result["p1"].msg, result["p3"].msg} = {Joined, AlreadyJoined}
  /\ sessions["s1"].exists
  /\ Size("s1") = 2
  /\ "A" \in AttendeeSet("s1")

\* ---- the effect of a leave

\* C25: a leave that goes through removes the user from attendees, keeps
\* every other attendee (in order), and writes isFull = false; the list is
\* shorter by exactly one and the user is no longer on it.
LeaveRemovesOnlyUser ==
  [][\A p \in Procs :
       LET d == sessions[target[p]]
           e == sessions'[target[p]]
           u == userOf[p]
       IN LeaveCommitted(p) =>
            /\ e.attendees = SelectSeq(d.attendees, LAMBDA x : x # u)
            /\ u \notin Range(e.attendees)
            /\ Range(e.attendees) = Range(d.attendees) \ {u}
            /\ Len(e.attendees) = Len(d.attendees) - 1
            /\ e.isFull = FALSE
    ]_vars

\* C25 witness: a session of capacity 2 was filled and marked full, then
\* one of the two left: one attendee remains, the leaver is off the list
\* and isFull is false again.
LeftFullSession ==
  \E p \in Procs :
    /\ pc[p] = "idle" /\ result[p].msg = Left
    /\ CapacitySet("s1") /\ sessions["s1"].capacity = 2
    /\ sessions["s1"].version = 3
    /\ Size("s1") = 1 /\ userOf[p] \notin AttendeeSet("s1")
    /\ ~sessions["s1"].isFull

\* ---- creation

\* The text is a whole number: an optional minus sign, then digits only.
IsNumeral(t) ==
  LET body == IF t # <<>> /\ Head(t) = "-" THEN Tail(t) ELSE t
  IN body # <<>> /\ \A i \in 1..Len(body) : body[i] \in Digits

\* The number a numeral denotes.
NumeralValue(t) ==
  IF Head(t) = "-" THEN 0 - ReadDigits(Tail(t), 0, 0).val
  ELSE ReadDigits(t, 0, 0).val

\* C26 (as claimed): a submit whose capacity text is not empty and is
\* non-numeric or <= 0 writes no document; and every session the form
\* creates has attendees = [creator] and a capacity that is absent or an
\* integer >= 1, so that |attendees| <= capacity from the start.
CreationValidatesCapacity ==
  [][\A p \in Procs :
       LET t == Trim(capacity[p]) IN
       /\ (result'[p] # result[p] /\ t # <<>>
             /\ (~IsNumeral(t) \/ NumeralValue(t) <= 0)) =>
            sessions' = sessions
       /\ \A s \in SessionIds :
            (~sessions[s].exists /\ sessions'[s].exists
               /\ result'[p] # result[p]) =>
              /\ sessions'[s].attendees = <<userOf[p]>>
              /\ sessions'[s].hasCapacity => sessions'[s].capacity >= 1
    ]_vars

\* ---- frame of join and leave

\* The step belongs to a join or leave call of client p.
CallStep(p) == pc[p] # "idle" /\ CallState(p)' # CallState(p)

\* C27: a step of a join or leave, whether it commits, conflicts or is
\* refused, changes at most the attendees and isFull of the session the
\* call targets (and the store's version of that document): its capacity
\* and its existence stay, and every other session document stays whole.
JoinLeaveFrame ==
  [][\A p \in Procs :
       CallStep(p) =>
         /\ \A s \in SessionIds \ {target[p]} : sessions'[s] = sessions[s]
         /\ sessions'[target[p]].exists = sessions[target[p]].exists
         /\ sessions'[target[p]].hasCapacity = sessions[target[p]].hasCapacity
         /\ sessions'[target[p]].capacity = sessions[target[p]].capacity
    ]_vars

\* C27 witness: two sessions exist, both with capacity 1; a client left
\* the one it had created and was refused by the other, which is full:
\* the first is empty with its capacity kept, the second as created.
LeftOneRefusedByOther ==
  \E p, q \in Procs :
    /\ p # q
    /\ sessions["s1"].exists /\ sessions["s1"].capacity = 1
    /\ sessions["s1"].attendees = <<>> /\ sessions["s1"].version = 2
    /\ sessions["s2"] = NewSession(userOf[q], <<"1">>)
    /\ pc[p] = "idle"
    /\ result[p] = [msg |-> SessionFull, sid |-> "s2", tries |-> 1]

\* ---- isFull and free slots

\* C28: isFull is never true while a slot is free: in every reachable
\* state a session marked full has a capacity and at least that many
\* attendees, so the Join button is disabled for a user only when the
\* session has no room.
FullOnlyWithoutRoom ==
  \A s \in SessionIds :
    /\ sessions[s].isFull =>
         /\ sessions[s].exists /\ sessions[s].hasCapacity
         /\ Size(s) >= sessions[s].capacity
    /\ \A u \in Users :
         JoinDisabled(s, u) =>
           sessions[s].hasCapacity /\ Size(s) >= sessions[s].capacity

\* C28 witness: a session of capacity 2 was emptied by its creator and
\* then taken by two joins; it is marked full with two attendees, and the
\* Join button is disabled for the third user.
MarkedFullWhenFilled ==
  /\ sessions["s1"].isFull /\ sessions["s1"].capacity = 2
  /\ Size("s1") = 2 /\ sessions["s1"].version = 4
  /\ \E u \in Users : JoinDisabled("s1", u)
  /\ \A p \in Procs : pc[p] = "idle"

\* ---- reminders

\* The step ends task t's call of function op.
Returns(t, op) ==
  task[t].op = op /\ task[t].pc # "idle" /\ task'[t].pc = "idle"

PermissionRequestedOnce == prompts <= 1

\* C29: concurrent updates of the mapping lose no entry: when two
\* overlapping calls of scheduleSessionReminder for two different sessions
\* have both returned an id, the stored mapping holds each session's id.
ConcurrentSchedulesBothStored ==
  \A t, u \in Tasks :
    ( /\ t # u /\ AllTasksIdle /\ ncalls = 2
      /\ task[t].op = "scheduleSessionReminder" /\ task[t].ret # 0
      /\ task[u].op = "scheduleSessionReminder" /\ task[u].ret # 0
      /\ task[t].sid # task[u].sid ) =>
        /\ GetNotificationIdBySessionId(task[t].sid) = task[t].ret
        /\ GetNotificationIdBySessionId(task[u].sid) = task[u].ret

\* The notification ids the stored mapping holds.
MappedIds == {GetNotificationIdBySessionId(s) : s \in SessionIds} \ {0}

\* C30: no reminder is orphaned: after any sequence of calls of the
\* service, each returned before the next, the scheduled notifications
\* are exactly the ids the mapping holds.
NoReminderOrphaned == AllTasksIdle => scheduled = MappedIds

====
